---- MODULE Spec2Model ----
(***************************************************************************)
(* The brainfuck interpreter of src/bf.cpp as a state machine: main()      *)
(* builds a FlyweightCode from the filtered source (build_bracket_map      *)
(* scans it once with a stack of '[' positions), then                      *)
(* BrainfuckInterpreter::interpret runs step() until the program counter   *)
(* is no longer below the code's size.                                     *)
(***************************************************************************)
EXTENDS Integers, Sequences, FiniteSets, TLC

VARIABLES
    m_code,           \* FlyweightCode::m_code, the filtered source
    m_bracket_map,    \* FlyweightCode::m_bracket_map: size_t -> jump instruction
    bracket_stack,    \* build_bracket_map's local vector of '[' positions
    i,                \* build_bracket_map's loop index
    phase,            \* where main() is: "build", "interpret", or an end state
    data_counter,     \* state.data_counter  (size_t)
    program_counter,  \* state.program_counter (size_t)
    field,            \* state.field, the tape of uint8_t cells
    output,           \* bytes handed to StdOutputter::out, in order
    nread,            \* bytes StdInputter::in has taken from stdin
    eof,              \* stdin has reported end of file
    source_stream,    \* main()'s source_stream: the characters of the file
    stream_pos,       \* how many of them copy_if has read
    nsteps,           \* number of step() calls so far (saturates at MaxSteps)
    ub                \* an operation with undefined behaviour has been executed

vars == <<source_stream, stream_pos, m_code, m_bracket_map, bracket_stack, i, phase, data_counter,
          program_counter, field, output, nread, eof, nsteps, ub>>

----------------------------------------------------------------------------
(* Bounds of the model. *)

MaxLen == 4          \* longest filtered source
TapeLen == 2         \* cells of the tape (the program allocates 0x2000)
MaxOut == 1          \* bytes the output sink records
MaxIn == 1           \* bytes stdin holds before end of file
MaxStray == 1        \* how far past either end of the tape the data counter is followed
MaxSteps == MaxLen + 2   \* where the count of steps saturates

----------------------------------------------------------------------------
(* size_t: 64 bits, kept as four 16-bit limbs, least significant first. *)

NLimbs == 4
LimbBase == 65536

SizeT == [1..NLimbs -> 0..(LimbBase - 1)]

SzOf(n) == [k \in 1..NLimbs |-> IF k = 1 THEN n ELSE 0]

SizeMax == [k \in 1..NLimbs |-> LimbBase - 1]

\* x++ on a size_t
SzInc(x) ==
    [k \in 1..NLimbs |->
        IF \A m \in 1..(k - 1) : x[m] = LimbBase - 1
        THEN (x[k] + 1) % LimbBase
        ELSE x[k]]

\* x-- on a size_t
SzDec(x) ==
    [k \in 1..NLimbs |->
        IF \A m \in 1..(k - 1) : x[m] = 0
        THEN (x[k] + LimbBase - 1) % LimbBase
        ELSE x[k]]

\* x < n for a size_t x and a small n
SzLess(x, n) == (\A k \in 2..NLimbs : x[k] = 0) /\ x[1] < n

\* the value of a size_t known to be below LimbBase
SzVal(x) == x[1]

----------------------------------------------------------------------------
(* uint8_t *)

ByteMod == 256
Byte == 0..(ByteMod - 1)

\* conversion of an int to uint8_t
ToU8(n) == n % ByteMod

EOF == -1
InBytes == {0, 65}
\* what a read outside the tape may yield
WildBytes == {0, 1, 255}

----------------------------------------------------------------------------
(* The source alphabet and the sources main() can hand to FlyweightCode. *)

BfChars == {"+", "-", ">", "<", ".", ",", "[", "]"}

Sources == UNION {[1..n -> BfChars] : n \in 0..MaxLen}

size == Len(m_code)

\* m_code[k] for a 0-based position k
CharAt(k) == m_code[k + 1]

----------------------------------------------------------------------------
(* Instructions.  The six simple ones carry nothing (FlyweightCode keeps   *)
(* one object of each); a jump carries its target m_to.                    *)

m_inc == [kind |-> "IncData"]
m_dec == [kind |-> "DecData"]
m_next == [kind |-> "NextData"]
m_prev == [kind |-> "PrevData"]
m_in == [kind |-> "In"]
m_out == [kind |-> "Out"]

JumpZeroInstruction(to) == [kind |-> "JumpZero", m_to |-> to]
JumpNonzeroInstruction(to) == [kind |-> "JumpNonzero", m_to |-> to]

\* std::map::at on a missing key throws std::out_of_range
OutOfRange == [kind |-> "out_of_range"]

\* std::map::operator[] followed by assignment
MapPut(map, k, v) == [x \in (DOMAIN map) \cup {k} |-> IF x = k THEN v ELSE map[x]]

\* the two stores build_bracket_map makes for a ']' at k whose popped index is j
PairBrackets(map, j, k) ==
    MapPut(MapPut(map, j, JumpZeroInstruction(k)), k, JumpNonzeroInstruction(j))

\* a slip: the oldest entry instead of the newest
BackOldest(stack) == stack[1]

\* std::vector::back and pop_back on a non-empty vector
Back(stack) == stack[Len(stack)]
PopBack(stack) == SubSeq(stack, 1, Len(stack) - 1)

\* what back() may yield on an empty vector is any size_t; the model follows
\* the position past the end of the source and the largest size_t
GarbageIdx == {SzOf(size), SizeMax}

----------------------------------------------------------------------------
(* FlyweightCode's constructor: build_bracket_map, one action per turn of  *)
(* its loop.                                                               *)

Scanning == phase = "build" /\ i < size

UnchangedRun ==
    UNCHANGED <<source_stream, stream_pos, m_code, data_counter, program_counter, field,
                output, nread, eof, nsteps>>

\* '[' : push the position
BuildOpen ==
    /\ Scanning
    /\ CharAt(i) = "["
    /\ bracket_stack' = Append(bracket_stack, SzOf(i))
    /\ i' = i + 1
    /\ UNCHANGED <<m_bracket_map, phase, ub>>
    /\ UnchangedRun

\* ']' with a '[' on the stack: pop it and store the pair of jumps
BuildClose ==
    /\ Scanning
    /\ CharAt(i) = "]"
    /\ bracket_stack # <<>>
    /\ m_bracket_map' = PairBrackets(m_bracket_map, Back(bracket_stack), SzOf(i))
    /\ bracket_stack' = PopBack(bracket_stack)
    /\ i' = i + 1
    /\ UNCHANGED <<phase, ub>>
    /\ UnchangedRun

\* ']' with an empty stack: back() and pop_back() on an empty vector are
\* undefined.  The process dies there, or goes on with whatever back() read.
BuildCloseEmpty ==
    /\ Scanning
    /\ CharAt(i) = "]"
    /\ bracket_stack = <<>>
    /\ ub' = TRUE
    /\ \/ /\ phase' = "crashed"
          /\ UNCHANGED <<m_bracket_map, bracket_stack, i>>
       \/ /\ \E j \in GarbageIdx :
                m_bracket_map' = PairBrackets(m_bracket_map, j, SzOf(i))
          /\ bracket_stack' = <<>>
          /\ i' = i + 1
          /\ phase' = phase
    /\ UnchangedRun

\* any other character: nothing to do
BuildOther ==
    /\ Scanning
    /\ CharAt(i) \notin {"[", "]"}
    /\ i' = i + 1
    /\ UNCHANGED <<m_bracket_map, bracket_stack, phase, ub>>
    /\ UnchangedRun

\* the loop ends, the constructor returns and main() calls interpret()
BuildReturn ==
    /\ phase = "build"
    /\ i = size
    /\ phase' = "interpret"
    /\ UNCHANGED <<m_bracket_map, bracket_stack, i, ub>>
    /\ UnchangedRun

----------------------------------------------------------------------------
(* The instructions' execute(), as functions of what they read.            *)

\* a slip: the cell saturates at its largest value
IncDataSaturating(v) == IF v + 1 < ByteMod THEN v + 1 ELSE v

\* a slip: ++ where -- was meant, and the reverse
IncDataAsDec(v) == ToU8(v - 1)
DecDataAsInc(v) == ToU8(v + 1)

\* state.field[state.data_counter]++ on a uint8_t holding v
IncDataExecute(v) == ToU8(v + 1)

\* state.field[state.data_counter]-- on a uint8_t holding v
DecDataExecute(v) == ToU8(v - 1)

\* a slip: '>' moving the data counter the way '<' does
NextDataAsPrev(dc) == SzDec(dc)

\* state.data_counter++
NextDataExecute(dc) == SzInc(dc)

\* a slip that is a guard: '<' at the first cell stays there
PrevDataGuarded(dc) == IF dc = SzOf(0) THEN dc ELSE SzDec(dc)

\* state.data_counter--
PrevDataExecute(dc) == SzDec(dc)

\* a slip: the jump lands one past its target, before step() increments
JumpZeroPastTarget(ins, pc, v) == IF 0 = v THEN SzInc(ins.m_to) ELSE pc

\* a slip: the conditions of the two jumps exchanged
JumpZeroInverted(ins, pc, v) == IF 0 # v THEN ins.m_to ELSE pc
JumpNonzeroInverted(ins, pc, v) == IF 0 = v THEN ins.m_to ELSE pc

\* the program counter JumpZeroInstruction::execute leaves, the cell holding v
JumpZeroExecute(ins, pc, v) == IF 0 = v THEN ins.m_to ELSE pc

\* the program counter JumpNonzeroInstruction::execute leaves, the cell holding v
JumpNonzeroExecute(ins, pc, v) == IF 0 # v THEN ins.m_to ELSE pc

\* a slip: end of input stored as 0
StdInputterInZeroAtEof(c) == IF c = EOF THEN 0 ELSE ToU8(c)

\* StdInputter::in : getchar()'s int, converted to uint8_t
StdInputterIn(c) == ToU8(c)

\* a slip: the byte is written twice
StdOutputterOutTwice(out, x) == Append(Append(out, x), x)

\* StdOutputter::out : putchar(x) appends the byte to what stdout holds
StdOutputterOut(out, x) == Append(out, x)

----------------------------------------------------------------------------
(* FlyweightCode::operator[] and the state an instruction reads.           *)

\* FlyweightCode::operator[] at a position k < size
Fetch(k) ==
    LET c == CharAt(SzVal(k))
    IN  CASE c = "+" -> m_inc
          [] c = "-" -> m_dec
          [] c = ">" -> m_next
          [] c = "<" -> m_prev
          [] c = "." -> m_out
          [] c = "," -> m_in
          [] c \in {"[", "]"} ->
                IF k \in DOMAIN m_bracket_map THEN m_bracket_map[k] ELSE OutOfRange

\* the data counter addresses a cell of the tape
InTape == SzLess(data_counter, TapeLen)

\* what reading state.field[state.data_counter] may yield
CellValues == IF InTape THEN {field[SzVal(data_counter)]} ELSE WildBytes

\* state.field[state.data_counter] = v ; a store outside the tape that does
\* not kill the process leaves the tape as it is
Store(v) == IF InTape THEN [field EXCEPT ![SzVal(data_counter)] = v] ELSE field

\* the data counter is on the tape or at most MaxStray past one of its ends
Near(dc) ==
    \/ SzLess(dc, TapeLen + MaxStray)
    \/ /\ \A k \in 2..NLimbs : dc[k] = LimbBase - 1
       /\ dc[1] >= LimbBase - MaxStray

\* the condition of interpret()'s while loop
Running == phase = "interpret" /\ SzLess(program_counter, size)

\* what getchar() may return now
Readable == IF eof \/ nread >= MaxIn THEN {EOF} ELSE InBytes \cup {EOF}

\* a slip: the bracket looked up with operator[], which inserts an empty
\* entry for a key the map does not hold
MapAfterSubscript(map, k) ==
    IF k \in DOMAIN map THEN map ELSE MapPut(map, k, OutOfRange)

\* the map after operator[] has looked the bracket at k up: operator[] is
\* const and at() never inserts
MapAfterAt(map, k) == map

\* what the fetch of step() leaves of the program
FetchKeepsCode ==
    /\ m_bracket_map' =
          IF CharAt(SzVal(program_counter)) \in {"[", "]"}
          THEN MapAfterAt(m_bracket_map, program_counter)
          ELSE m_bracket_map
    /\ UNCHANGED <<source_stream, stream_pos, m_code>>

\* the end of step(): state.program_counter++ on the counter execute() left
Advance(pc) ==
    /\ program_counter' = SzInc(pc)
    /\ nsteps' = IF nsteps < MaxSteps THEN nsteps + 1 ELSE nsteps
    /\ ub' = (ub \/ ~InTape)
    /\ FetchKeepsCode
    /\ UNCHANGED <<bracket_stack, i, phase>>

\* a slip: the counter is incremented twice
AdvanceNoAccessTwice ==
    /\ program_counter' = SzInc(SzInc(program_counter))
    /\ nsteps' = IF nsteps < MaxSteps THEN nsteps + 1 ELSE nsteps
    /\ FetchKeepsCode
    /\ UNCHANGED <<bracket_stack, i, phase, ub>>

\* an instruction that touches no cell
AdvanceNoAccess ==
    /\ program_counter' = SzInc(program_counter)
    /\ nsteps' = IF nsteps < MaxSteps THEN nsteps + 1 ELSE nsteps
    /\ FetchKeepsCode
    /\ UNCHANGED <<bracket_stack, i, phase, ub>>

----------------------------------------------------------------------------
(* BrainfuckInterpreter::step, one action per kind of instruction fetched. *)

StepIncData ==
    /\ Running
    /\ Fetch(program_counter).kind = "IncData"
    /\ \E v \in CellValues : field' = Store(IncDataExecute(v))
    /\ Advance(program_counter)
    /\ UNCHANGED <<data_counter, output, nread, eof>>

StepDecData ==
    /\ Running
    /\ Fetch(program_counter).kind = "DecData"
    /\ \E v \in CellValues : field' = Store(DecDataExecute(v))
    /\ Advance(program_counter)
    /\ UNCHANGED <<data_counter, output, nread, eof>>

StepNextData ==
    /\ Running
    /\ Fetch(program_counter).kind = "NextData"
    /\ Near(NextDataExecute(data_counter))
    /\ data_counter' = NextDataExecute(data_counter)
    /\ AdvanceNoAccess
    /\ UNCHANGED <<field, output, nread, eof>>

StepPrevData ==
    /\ Running
    /\ Fetch(program_counter).kind = "PrevData"
    /\ Near(PrevDataExecute(data_counter))
    /\ data_counter' = PrevDataExecute(data_counter)
    /\ AdvanceNoAccess
    /\ UNCHANGED <<field, output, nread, eof>>

StepIn ==
    /\ Running
    /\ Fetch(program_counter).kind = "In"
    /\ \E c \in Readable :
          /\ field' = Store(StdInputterIn(c))
          /\ nread' = IF c = EOF THEN nread ELSE nread + 1
          /\ eof' = (eof \/ c = EOF)
    /\ Advance(program_counter)
    /\ UNCHANGED <<data_counter, output>>

StepOut ==
    /\ Running
    /\ Fetch(program_counter).kind = "Out"
    /\ Len(output) < MaxOut
    /\ \E v \in CellValues : output' = StdOutputterOut(output, v)
    /\ Advance(program_counter)
    /\ UNCHANGED <<data_counter, field, nread, eof>>

StepJumpZero ==
    /\ Running
    /\ Fetch(program_counter).kind = "JumpZero"
    /\ \E v \in CellValues :
          Advance(JumpZeroExecute(Fetch(program_counter), program_counter, v))
    /\ UNCHANGED <<data_counter, field, output, nread, eof>>

StepJumpNonzero ==
    /\ Running
    /\ Fetch(program_counter).kind = "JumpNonzero"
    /\ \E v \in CellValues :
          Advance(JumpNonzeroExecute(Fetch(program_counter), program_counter, v))
    /\ UNCHANGED <<data_counter, field, output, nread, eof>>

\* an access outside the tape may kill the process instead
StepWildAccess ==
    /\ Running
    /\ Fetch(program_counter).kind
          \in {"IncData", "DecData", "In", "Out", "JumpZero", "JumpNonzero"}
    /\ ~InTape
    /\ phase' = "crashed"
    /\ ub' = TRUE
    /\ UNCHANGED <<source_stream, stream_pos, m_code, m_bracket_map, bracket_stack, i, data_counter,
                   program_counter, field, output, nread, eof, nsteps>>

\* a bracket with no entry in m_bracket_map: at() throws, nothing catches it
\* and the process is terminated
StepThrow ==
    /\ Running
    /\ Fetch(program_counter).kind = "out_of_range"
    /\ phase' = "terminated"
    /\ FetchKeepsCode
    /\ UNCHANGED <<bracket_stack, i, data_counter,
                   program_counter, field, output, nread, eof, nsteps, ub>>

\* interpret()'s loop condition fails: interpret() and main() return
Halt ==
    /\ phase = "interpret"
    /\ ~SzLess(program_counter, size)
    /\ phase' = "halted"
    /\ UNCHANGED <<source_stream, stream_pos, m_code, m_bracket_map, bracket_stack, i, data_counter,
                   program_counter, field, output, nread, eof, nsteps, ub>>

Step ==
    \/ StepIncData
    \/ StepDecData
    \/ StepNextData
    \/ StepPrevData
    \/ StepIn
    \/ StepOut
    \/ StepJumpZero
    \/ StepJumpNonzero

----------------------------------------------------------------------------

\* main() after the filter: the state is zeroed, then the code is built.  The
\* file is one that holds no other character; FilterSpec follows the filter
\* over files that do.
Init ==
    /\ m_code \in Sources
    /\ source_stream = m_code
    /\ stream_pos = Len(source_stream)
    /\ m_bracket_map = <<>>
    /\ bracket_stack = <<>>
    /\ i = 0
    /\ phase = "build"
    /\ data_counter = SzOf(0)
    /\ program_counter = SzOf(0)
    /\ field = [k \in 0..(TapeLen - 1) |-> 0]
    /\ output = <<>>
    /\ nread = 0
    /\ eof = FALSE
    /\ nsteps = 0
    /\ ub = FALSE

Next ==
    \/ BuildOpen
    \/ BuildClose
    \/ BuildCloseEmpty
    \/ BuildOther
    \/ BuildReturn
    \/ StepIncData
    \/ StepDecData
    \/ StepNextData
    \/ StepPrevData
    \/ StepIn
    \/ StepOut
    \/ StepJumpZero
    \/ StepJumpNonzero
    \/ StepWildAccess
    \/ StepThrow
    \/ Halt

Spec == Init /\ [][Next]_vars

TypeOK ==
    /\ m_code \in Sources
    /\ phase \in {"filter", "build", "interpret", "halted", "crashed", "terminated"}
    /\ data_counter \in SizeT
    /\ program_counter \in SizeT
    /\ field \in [0..(TapeLen - 1) -> Byte]
    /\ i \in 0..size

----------------------------------------------------------------------------
(* main()'s filter: std::copy_if over the file with is_bf_char, one action *)
(* per character read.  code_string is what FlyweightCode takes as m_code. *)

MaxRaw == 3          \* longest file the filter is followed over

\* characters of a file that are no operation
OtherChars == {"a", " "}

RawInputs == UNION {[1..n -> BfChars \cup OtherChars] : n \in 0..MaxRaw}

\* a slip: the case of ',' left out of the switch
is_bf_char_no_comma(c) ==
    CASE c = "+" -> TRUE
      [] c = "-" -> TRUE
      [] c = ">" -> TRUE
      [] c = "<" -> TRUE
      [] c = "." -> TRUE
      [] c = "[" -> TRUE
      [] c = "]" -> TRUE
      [] OTHER -> FALSE

is_bf_char(c) ==
    CASE c = "+" -> TRUE
      [] c = "-" -> TRUE
      [] c = ">" -> TRUE
      [] c = "<" -> TRUE
      [] c = "." -> TRUE
      [] c = "," -> TRUE
      [] c = "[" -> TRUE
      [] c = "]" -> TRUE
      [] OTHER -> FALSE

Filtering == phase = "filter" /\ stream_pos < Len(source_stream)

UnchangedByFilter ==
    UNCHANGED <<source_stream, m_bracket_map, bracket_stack, i, data_counter,
                program_counter, field, output, nread, eof, nsteps, ub>>

\* the predicate holds: the character is appended to code_string
FilterKeep ==
    /\ Filtering
    /\ is_bf_char(source_stream[stream_pos + 1])
    /\ m_code' = Append(m_code, source_stream[stream_pos + 1])
    /\ stream_pos' = stream_pos + 1
    /\ phase' = phase
    /\ UnchangedByFilter

\* the predicate fails: the character is skipped
FilterDrop ==
    /\ Filtering
    /\ ~is_bf_char(source_stream[stream_pos + 1])
    /\ stream_pos' = stream_pos + 1
    /\ UNCHANGED <<m_code, phase>>
    /\ UnchangedByFilter

\* the stream is at its end: main() goes on to build the code
FilterEnd ==
    /\ phase = "filter"
    /\ stream_pos = Len(source_stream)
    /\ phase' = "build"
    /\ UNCHANGED <<m_code, stream_pos>>
    /\ UnchangedByFilter

FilterInit ==
    /\ source_stream \in RawInputs
    /\ stream_pos = 0
    /\ m_code = <<>>
    /\ m_bracket_map = <<>>
    /\ bracket_stack = <<>>
    /\ i = 0
    /\ phase = "filter"
    /\ data_counter = SzOf(0)
    /\ program_counter = SzOf(0)
    /\ field = [k \in 0..(TapeLen - 1) |-> 0]
    /\ output = <<>>
    /\ nread = 0
    /\ eof = FALSE
    /\ nsteps = 0
    /\ ub = FALSE

FilterNext ==
    \/ FilterKeep
    \/ FilterDrop
    \/ FilterEnd

FilterSpec == FilterInit /\ [][FilterNext]_vars

\* the process keeps running: a step that can be taken is taken
FairSpec == Spec /\ WF_vars(Next)

\* what the current cell may hold when a caller other than main() hands its
\* own state to interpret()
StartCells == {0, 1}

\* as Init, for a state whose first cell the caller has set
PresetInit ==
    /\ m_code \in Sources
    /\ source_stream = m_code
    /\ stream_pos = Len(source_stream)
    /\ source_stream = m_code
    /\ stream_pos = Len(source_stream)
    /\ m_bracket_map = <<>>
    /\ bracket_stack = <<>>
    /\ i = 0
    /\ phase = "build"
    /\ data_counter = SzOf(0)
    /\ program_counter = SzOf(0)
    /\ \E v \in StartCells :
          field = [k \in 0..(TapeLen - 1) |-> IF k = 0 THEN v ELSE 0]
    /\ output = <<>>
    /\ nread = 0
    /\ eof = FALSE
    /\ nsteps = 0
    /\ ub = FALSE

PresetSpec == PresetInit /\ [][Next]_vars

----------------------------------------------------------------------------
(* parse_code: the other builder, one heap instruction per character.      *)
(* It is a pure function of the source string.                             *)

\* a default-constructed std::unique_ptr
nullptr == [kind |-> "nullptr"]

\* ret[k] = v on the vector of instructions (k a 0-based index)
RetPut(ret, k, v) == [ret EXCEPT ![k + 1] = v]

\* a slip: each jump is given its own index as target
ParseStoreOwnIndex(ret, j, k) ==
    RetPut(RetPut(ret, SzVal(j), JumpZeroInstruction(j)),
           k, JumpNonzeroInstruction(SzOf(k)))

\* the two stores of the ']' case at k, j the popped index
ParseStore(ret, j, k) ==
    RetPut(RetPut(ret, SzVal(j), JumpZeroInstruction(SzOf(k))),
           k, JumpNonzeroInstruction(j))

RECURSIVE ParseLoop(_, _)
\* ret and brackets after the turns of the loop for the first n characters;
\* defined while no ']' meets an empty brackets vector
ParseLoop(code, n) ==
    IF n = 0
    THEN [ret |-> [k \in 1..Len(code) |-> nullptr], brackets |-> <<>>]
    ELSE LET before == ParseLoop(code, n - 1)
             k == n - 1
             c == code[n]
         IN  CASE c = "+" -> [before EXCEPT !.ret = RetPut(@, k, m_inc)]
               [] c = "-" -> [before EXCEPT !.ret = RetPut(@, k, m_dec)]
               [] c = ">" -> [before EXCEPT !.ret = RetPut(@, k, m_next)]
               [] c = "<" -> [before EXCEPT !.ret = RetPut(@, k, m_prev)]
               [] c = "." -> [before EXCEPT !.ret = RetPut(@, k, m_out)]
               [] c = "," -> [before EXCEPT !.ret = RetPut(@, k, m_in)]
               [] c = "[" -> [before EXCEPT !.brackets = Append(@, SzOf(k))]
               [] c = "]" ->
                     [ret |-> ParseStore(before.ret, Back(before.brackets), k),
                      brackets |-> PopBack(before.brackets)]

\* the vector parse_code returns
parse_code(code) == ParseLoop(code, Len(code)).ret

----------------------------------------------------------------------------
(* Bracket structure of a source, by counting: independent of the stack    *)
(* the builder uses.                                                       *)

Delta(c) == IF c = "[" THEN 1 ELSE IF c = "]" THEN -1 ELSE 0

RECURSIVE Depth(_, _)
\* the number of '[' minus the number of ']' among the first k characters
Depth(s, k) == IF k = 0 THEN 0 ELSE Depth(s, k - 1) + Delta(s[k])

Balanced(s) ==
    /\ \A k \in 0..Len(s) : Depth(s, k) >= 0
    /\ Depth(s, Len(s)) = 0

\* the '[' at 0-based position a and the ']' at b enclose a balanced stretch
Match(s, a, b) ==
    /\ a < b
    /\ s[a + 1] = "["
    /\ s[b + 1] = "]"
    /\ Depth(s, b + 1) = Depth(s, a)
    /\ \A k \in (a + 1)..b : Depth(s, k) > Depth(s, a)

\* some ']' has no '[' before it to close
HasUnmatchedClose(s) == \E k \in 0..Len(s) : Depth(s, k) < 0

Positions == 0..(size - 1)

ZeroTape == [k \in 0..(TapeLen - 1) |-> 0]

----------------------------------------------------------------------------
(* C1: for every balanced-bracket source the builder runs without an       *)
(* undefined operation, and when its scan ends the bracket stack is empty  *)
(* and, for every matched pair '[' at a and ']' at b, slot a holds a       *)
(* jump-if-zero with target b and slot b a jump-if-nonzero with target a.  *)
C1_BalancedPairsResolved ==
    Balanced(m_code) =>
        /\ phase = "build" => ~ub
        /\ i = size =>
              /\ bracket_stack = <<>>
              /\ \A a, b \in Positions :
                    Match(m_code, a, b) =>
                        /\ Fetch(SzOf(a)) = JumpZeroInstruction(SzOf(b))
                        /\ Fetch(SzOf(b)) = JumpNonzeroInstruction(SzOf(a))

\* a nested pair and a pair after it have been resolved
C1_Witness ==
    /\ m_code = <<"[", "[", "]", "]">>
    /\ phase = "interpret"
    /\ Fetch(SzOf(0)) = JumpZeroInstruction(SzOf(3))
    /\ Fetch(SzOf(2)) = JumpNonzeroInstruction(SzOf(1))

----------------------------------------------------------------------------
(* C2: a source in which a ']' meets an empty bracket stack ends in a      *)
(* construction failure: the process does not crash, nothing undefined is  *)
(* done to the stack, no jump has a target outside the source, and the     *)
(* dispatch loop is never started.                                         *)
C2_UnmatchedCloseRejected ==
    HasUnmatchedClose(m_code) =>
        /\ ~ub
        /\ phase \notin {"crashed", "interpret", "halted", "terminated"}
        /\ \A k \in DOMAIN m_bracket_map :
              /\ SzLess(k, size)
              /\ SzLess(m_bracket_map[k].m_to, size)

----------------------------------------------------------------------------
(* C3: a source that leaves entries on the bracket stack after the scan is *)
(* rejected during construction, and nothing of it is executed: tape,      *)
(* counters and output are as initialised.                                 *)
C3_UnmatchedOpenRejected ==
    (i = size /\ bracket_stack # <<>>) =>
        /\ phase \notin {"interpret", "halted", "crashed", "terminated"}
        /\ nsteps = 0
        /\ field = ZeroTape
        /\ data_counter = SzOf(0)
        /\ program_counter = SzOf(0)
        /\ output = <<>>

----------------------------------------------------------------------------
(* C4: no instruction raises an error during execution: whenever the       *)
(* program counter is below the program's length the fetch yields an       *)
(* instruction, and no run ends in a failed lookup.                        *)
InstructionKinds ==
    {"IncData", "DecData", "NextData", "PrevData", "In", "Out", "JumpZero", "JumpNonzero"}

C4_NoRuntimeError ==
    /\ Running => Fetch(program_counter).kind \in InstructionKinds
    /\ phase # "terminated"

----------------------------------------------------------------------------
(* C5: the dispatch loop's only exit is the halt at program_counter >=     *)
(* size: once a step has been taken (and the data counter has stayed on    *)
(* the tape) the run is stepping or halted, never aborted.                 *)
C5_OnlyExitIsHalt ==
    /\ phase = "halted" => ~SzLess(program_counter, size)
    /\ (nsteps > 0 /\ ~ub) => phase \in {"interpret", "halted"}

----------------------------------------------------------------------------
(* C6: a step on the jump-if-zero at a whose target is its matching ']'    *)
(* at b, taken with the current cell 0, leaves the program counter at      *)
(* b + 1 and the tape and the data counter as they were.                   *)
C6_JumpZeroTaken ==
    [][\A a, b \in Positions :
          ( /\ phase = "interpret"
            /\ program_counter = SzOf(a)
            /\ Match(m_code, a, b)
            /\ Fetch(SzOf(a)) = JumpZeroInstruction(SzOf(b))
            /\ InTape
            /\ field[SzVal(data_counter)] = 0 )
          => ( /\ program_counter' = SzOf(b + 1)
               /\ field' = field
               /\ data_counter' = data_counter )]_vars

\* the '[' at 0 was stepped on a zero cell and the counter is past its ']'
C6_Witness ==
    /\ phase = "interpret"
    /\ nsteps = 1
    /\ \E b \in Positions :
          /\ b >= 2
          /\ Match(m_code, 0, b)
          /\ program_counter = SzOf(b + 1)

----------------------------------------------------------------------------
(* C7: a step on the jump-if-nonzero at b whose target is its matching '[' *)
(* at a, taken with the current cell not 0, leaves the program counter at  *)
(* a + 1 and the tape and the data counter as they were.                   *)
C7_JumpNonzeroTaken ==
    [][\A a, b \in Positions :
          ( /\ phase = "interpret"
            /\ program_counter = SzOf(b)
            /\ Match(m_code, a, b)
            /\ Fetch(SzOf(b)) = JumpNonzeroInstruction(SzOf(a))
            /\ InTape
            /\ field[SzVal(data_counter)] # 0 )
          => ( /\ program_counter' = SzOf(a + 1)
               /\ field' = field
               /\ data_counter' = data_counter )]_vars

\* "+[+]": the ']' at 3 was stepped on a cell holding 2 and the counter is
\* back on the loop body
C7_Witness ==
    /\ m_code = <<"+", "[", "+", "]">>
    /\ phase = "interpret"
    /\ nsteps = 4
    /\ field[0] = 2
    /\ program_counter = SzOf(2)

----------------------------------------------------------------------------
(* C8: every cell stays in 0..255, a step on '+' takes a cell holding 255  *)
(* to 0 and any other v to v + 1, and a step on '-' takes a cell holding 0 *)
(* to 255 and any other v to v - 1.                                        *)
C8_CellsWrap ==
    [][/\ field' \in [0..(TapeLen - 1) -> Byte]
       /\ (Running /\ InTape) =>
             LET v == field[SzVal(data_counter)]
                 w == field'[SzVal(data_counter)]
             IN  /\ Fetch(program_counter).kind = "IncData" =>
                       w = IF v = 255 THEN 0 ELSE v + 1
                 /\ Fetch(program_counter).kind = "DecData" =>
                       w = IF v = 0 THEN 255 ELSE v - 1]_vars

\* "-+": the cell went from 0 to 255 and back to 0
C8_Witness ==
    /\ m_code = <<"-", "+">>
    /\ phase = "halted"
    /\ nsteps = 2
    /\ field[0] = 0

----------------------------------------------------------------------------
(* C9: "+[-]" from the zeroed tape halts; it executes each of its four     *)
(* instructions once, in order: the cell is 1 after '+' and when the loop  *)
(* body is entered, 0 after '-' and at the halt; the data counter stays 0  *)
(* and nothing is output.                                                  *)
PlusLoopMinus == <<"+", "[", "-", "]">>

C9_PlusLoopMinusHalts ==
    /\ [](m_code = PlusLoopMinus =>
            /\ phase \notin {"crashed", "terminated"}
            /\ output = <<>>
            /\ data_counter = SzOf(0)
            /\ phase \in {"interpret", "halted"} => program_counter = SzOf(nsteps)
            /\ field[0] = IF nsteps \in {1, 2} THEN 1 ELSE 0
            /\ phase = "halted" => nsteps = 4)
    /\ (m_code = PlusLoopMinus) ~> (phase = "halted")

\* "+[-]" has halted with the cell back at 0 after four steps
C9_Witness ==
    /\ m_code = PlusLoopMinus
    /\ phase = "halted"
    /\ nsteps = 4
    /\ field[0] = 0

----------------------------------------------------------------------------
(* C10: "++" from the zeroed tape halts after exactly 2 steps with         *)
(* tape[0] = 2, every other cell 0 and the data counter still 0.           *)
PlusPlus == <<"+", "+">>

C10_PlusPlus ==
    m_code = PlusPlus =>
        /\ phase \notin {"crashed", "terminated"}
        /\ phase = "interpret" => (Running <=> nsteps < 2)
        /\ phase = "halted" =>
              /\ nsteps = 2
              /\ field[0] = 2
              /\ \A k \in 1..(TapeLen - 1) : field[k] = 0
              /\ data_counter = SzOf(0)

\* "++" has halted
C10_Witness ==
    /\ m_code = PlusPlus
    /\ phase = "halted"
    /\ field[0] = 2

----------------------------------------------------------------------------
(* C11: "+." halts with the output exactly <<1>>.  A step on '.' that the  *)
(* process survives appends exactly one byte, the current cell when the    *)
(* data counter is on the tape; no other step changes the output.          *)
PlusDot == <<"+", ".">>

C11_OutputBytes ==
    [][/\ (m_code' = PlusDot /\ phase' = "halted") => output' = <<1>>
       /\ (Running /\ phase' = "interpret") =>
             IF Fetch(program_counter).kind = "Out"
             THEN /\ Len(output') = Len(output) + 1
                  /\ SubSeq(output', 1, Len(output)) = output
                  /\ InTape => output'[Len(output')] = field[SzVal(data_counter)]
             ELSE output' = output
       /\ ~Running => output' = output]_vars

\* "+." has halted having written the byte 1
C11_Witness ==
    /\ m_code = PlusDot
    /\ phase = "halted"
    /\ output = <<1>>

----------------------------------------------------------------------------
(* C12: "[]" is accepted as balanced, slot 0 a jump-if-zero to 1 and slot  *)
(* 1 a jump-if-nonzero to 0.  Started on a cell holding 0 it halts after a *)
(* single step with the program counter at 2; started on a cell that is    *)
(* not 0 it keeps stepping inside the loop and is never halted.            *)
EmptyLoop == <<"[", "]">>

C12_EmptyLoop ==
    m_code = EmptyLoop =>
        /\ phase = "build" => ~ub
        /\ phase \notin {"crashed", "terminated"}
        /\ i = size =>
              /\ bracket_stack = <<>>
              /\ Fetch(SzOf(0)) = JumpZeroInstruction(SzOf(1))
              /\ Fetch(SzOf(1)) = JumpNonzeroInstruction(SzOf(0))
        /\ field[0] = 0 =>
              /\ phase = "interpret" =>
                    \/ nsteps = 0 /\ program_counter = SzOf(0)
                    \/ nsteps = 1 /\ program_counter = SzOf(2)
              /\ phase = "halted" => nsteps = 1 /\ program_counter = SzOf(2)
        /\ field[0] # 0 =>
              /\ phase # "halted"
              /\ phase = "interpret" => Running
              /\ field[0] \in StartCells

\* "[]" on a cell that is not 0 is still running after more steps than the
\* count of steps follows
C12_Witness ==
    /\ m_code = EmptyLoop
    /\ field[0] # 0
    /\ phase = "interpret"
    /\ nsteps = MaxSteps

----------------------------------------------------------------------------
(* C13: the program is as long as the source, a balanced source has an     *)
(* instruction at each of its positions, and no step of the dispatch loop  *)
(* changes the program: the source, the bracket map and the instruction    *)
(* fetched at every position are the same after the step as before it.     *)
C13_ProgramFixed ==
    [][phase = "interpret" =>
          /\ size = Len(m_code)
          /\ Balanced(m_code) =>
                \A k \in Positions : Fetch(SzOf(k)).kind \in InstructionKinds
          /\ m_code' = m_code
          /\ size' = size
          /\ m_bracket_map' = m_bracket_map
          /\ \A k \in Positions : Fetch(SzOf(k))' = Fetch(SzOf(k))]_vars

\* a loop has been gone round: jumps were fetched and executed
C13_Witness ==
    /\ m_code = <<"+", "[", "+", "]">>
    /\ phase = "interpret"
    /\ nsteps = MaxSteps
    /\ Fetch(SzOf(3)) = JumpNonzeroInstruction(SzOf(1))

----------------------------------------------------------------------------
(* C14: the filter yields the characters of the file that are among the    *)
(* eight operations, in their order, and nothing else; a file that holds   *)
(* only operations (so any filtered string) comes out unchanged.           *)
OpChars == {"+", "-", ">", "<", ".", ",", "[", "]"}

Kept(s) == SelectSeq(s, LAMBDA c : c \in OpChars)

C14_Filter ==
    /\ m_code = Kept(SubSeq(source_stream, 1, stream_pos))
    /\ phase = "build" =>
          /\ stream_pos = Len(source_stream)
          /\ m_code = Kept(source_stream)
          /\ \A k \in 1..Len(m_code) : m_code[k] \in OpChars
          /\ (\A k \in 1..Len(source_stream) : source_stream[k] \in OpChars)
                => m_code = source_stream

\* a file with another character between two operations has been filtered
C14_Witness ==
    /\ phase = "build"
    /\ source_stream = <<",", "a", "]">>
    /\ m_code = <<",", "]">>

----------------------------------------------------------------------------
(* C15: a step is one fetch, one execute and one increment of the program  *)
(* counter.  A step on '>' or '<' changes only the data counter (by one up *)
(* or down); with the data counter on the tape a step on '+' or '-'        *)
(* changes only the current cell, on '.' only the output, on ',' only the  *)
(* current cell and the input consumed, on a jump whose condition is false *)
(* nothing; each of them moves the program counter to its old value + 1.   *)
OtherCellsKept ==
    \A k \in 0..(TapeLen - 1) : k # SzVal(data_counter) => field'[k] = field[k]

InputKept == nread' = nread /\ eof' = eof

C15_StepFrames ==
    [][Running =>
          LET kind == Fetch(program_counter).kind
              cell == field[SzVal(data_counter)]
              next == program_counter' = SzInc(program_counter)
          IN  /\ (InTape /\ kind \in {"IncData", "DecData"}) =>
                    /\ next /\ OtherCellsKept
                    /\ data_counter' = data_counter
                    /\ output' = output /\ InputKept
              /\ kind = "NextData" =>
                    /\ next /\ field' = field
                    /\ data_counter' = SzInc(data_counter)
                    /\ output' = output /\ InputKept
              /\ kind = "PrevData" =>
                    /\ next /\ field' = field
                    /\ data_counter' = SzDec(data_counter)
                    /\ output' = output /\ InputKept
              /\ (InTape /\ kind = "Out") =>
                    /\ next /\ field' = field
                    /\ data_counter' = data_counter
                    /\ InputKept
              /\ (InTape /\ kind = "In") =>
                    /\ next /\ OtherCellsKept
                    /\ data_counter' = data_counter
                    /\ output' = output
              /\ ( /\ InTape
                   /\ \/ kind = "JumpZero" /\ cell # 0
                      \/ kind = "JumpNonzero" /\ cell = 0 ) =>
                    /\ next /\ field' = field
                    /\ data_counter' = data_counter
                    /\ output' = output /\ InputKept
              /\ (InTape /\ kind \in InstructionKinds) =>
                    /\ m_code' = m_code /\ m_bracket_map' = m_bracket_map
                    /\ phase' = phase]_vars

\* ",>" : a byte was read into cell 0 and the data counter moved to cell 1
C15_Witness ==
    /\ m_code = <<",", ">">>
    /\ phase = "halted"
    /\ nread = 1
    /\ field[0] = 65
    /\ data_counter = SzOf(1)
    /\ program_counter = SzOf(2)

----------------------------------------------------------------------------
(* C16: the data counter is not kept on the tape and leaving it raises no  *)
(* error: a step on '>' at the last cell leaves the data counter at the    *)
(* tape's length, a step on '<' at cell 0 leaves it at 2^64 - 1, and the   *)
(* run goes on.  (The witness is a state whose data counter is off the     *)
(* tape: staying on it is no invariant.)                                   *)
C16_DataCounterUnguarded ==
    [][Running =>
          /\ ( /\ Fetch(program_counter).kind = "NextData"
               /\ data_counter = SzOf(TapeLen - 1) ) =>
                    /\ data_counter' = SzOf(TapeLen)
                    /\ phase' = "interpret"
                    /\ ub' = ub
          /\ ( /\ Fetch(program_counter).kind = "PrevData"
               /\ data_counter = SzOf(0) ) =>
                    /\ data_counter' = <<65535, 65535, 65535, 65535>>
                    /\ phase' = "interpret"
                    /\ ub' = ub]_vars

\* "<" has run to its end and the data counter is the largest size_t
C16_Witness ==
    /\ m_code = <<"<">>
    /\ phase = "halted"
    /\ ~ub
    /\ ~InTape
    /\ data_counter = SizeMax

----------------------------------------------------------------------------
(* C17: in a run of a balanced source the program counter never exceeds    *)
(* the program's length: every fetch is at an index below it, a jump       *)
(* leaves the counter at most at the length, and a halted run has the      *)
(* counter exactly at the length.                                          *)
C17_ProgramCounterInRange ==
    Balanced(m_code) =>
        /\ SzLess(program_counter, size + 1)
        /\ Running => SzVal(program_counter) \in Positions
        /\ phase = "halted" => program_counter = SzOf(size)
        /\ phase # "terminated"
        /\ i = size =>
              \A k \in DOMAIN m_bracket_map :
                 SzLess(SzInc(m_bracket_map[k].m_to), size + 1)

\* "[+]" : the jump at 0 was taken to the last position and the run halted
\* with the counter at the length
C17_Witness ==
    /\ m_code = <<"[", "+", "]">>
    /\ phase = "halted"
    /\ nsteps = 1
    /\ program_counter = SzOf(3)

----------------------------------------------------------------------------
(* C18: for every balanced source, once FlyweightCode is built, parse_code *)
(* of the same source has the same length and at every index an            *)
(* instruction of the same kind and, for a jump, the same target; the      *)
(* dispatch loop, which uses the program only through its length and the   *)
(* instruction it fetches, therefore makes the same run over either.       *)
C18_BuildersAgree ==
    (Balanced(m_code) /\ i = size) =>
        /\ Len(parse_code(m_code)) = size
        /\ \A k \in Positions : parse_code(m_code)[k + 1] = Fetch(SzOf(k))
        /\ Running => parse_code(m_code)[SzVal(program_counter) + 1]
                         = Fetch(program_counter)

\* "[[]]" built and run to its end: both builders pair 0 with 3 and 1 with 2
C18_Witness ==
    /\ m_code = <<"[", "[", "]", "]">>
    /\ phase = "halted"
    /\ parse_code(m_code)[1] = JumpZeroInstruction(SzOf(3))
    /\ parse_code(m_code)[3] = JumpNonzeroInstruction(SzOf(1))
    /\ Fetch(SzOf(0)) = JumpZeroInstruction(SzOf(3))
    /\ Fetch(SzOf(2)) = JumpNonzeroInstruction(SzOf(1))

----------------------------------------------------------------------------
(* C19: a ',' executed with the data counter on the tape when the input    *)
(* is exhausted (getchar returns EOF: no byte is consumed) sets the        *)
(* current cell to 255, whatever it held; so does every later ',' of the   *)
(* run, for the input stays exhausted.                                     *)
C19_EofStores255 ==
    [][( /\ Running
         /\ Fetch(program_counter).kind = "In"
         /\ InTape
         /\ phase' # "crashed" ) =>
            /\ (eof \/ nread' = nread) =>
                  /\ field'[SzVal(data_counter)] = 255
                  /\ eof'
                  /\ nread' = nread
                  /\ \A k \in 0..(TapeLen - 1) :
                        k # SzVal(data_counter) => field'[k] = field[k]
            /\ nread' # nread => ~eof']_vars

\* ",>," with no input at all: both reads met the end of input and both
\* cells hold 255
C19_Witness ==
    /\ m_code = <<",", ">", ",">>
    /\ phase = "halted"
    /\ eof
    /\ nread = 0
    /\ field[0] = 255
    /\ field[1] = 255

----------------------------------------------------------------------------
\* the source holds no bracket
BracketFree(s) == \A k \in 1..Len(s) : s[k] \notin {"[", "]"}

(* C20 as stated: every run of a bracket-free program of length n keeps    *)
(* the program counter equal to the number of steps made, is never killed, *)
(* and halts after exactly n steps with the counter at n.                  *)
C20_BracketFreeHalts ==
    BracketFree(m_code) =>
        /\ phase \in {"build", "interpret", "halted"}
        /\ phase \in {"interpret", "halted"} =>
              /\ program_counter = SzOf(nsteps)
              /\ nsteps <= size
        /\ phase = "halted" => (nsteps = size /\ program_counter = SzOf(size))

\* the step at the program counter is within what the model follows of the
\* output and of the data counter's excursions
WithinModel ==
    LET kind == Fetch(program_counter).kind
    IN  /\ kind = "Out" => Len(output) < MaxOut
        /\ kind = "NextData" => Near(NextDataExecute(data_counter))
        /\ kind = "PrevData" => Near(PrevDataExecute(data_counter))

(* C20, amended: the same for every run of a bracket-free program in       *)
(* which the data counter was on the tape at each access to the current    *)
(* cell: the counter equals the number of steps made (so the k-th step     *)
(* executes position k - 1 and adds one to the counter), and the run halts *)
(* after exactly n steps with the counter at n; a step is possible at      *)
(* every position below n, end of input included.                          *)
C20_BracketFreeOnTapeHalts ==
    (BracketFree(m_code) /\ ~ub) =>
        /\ phase \in {"build", "interpret", "halted"}
        /\ phase \in {"interpret", "halted"} =>
              /\ program_counter = SzOf(nsteps)
              /\ nsteps <= size
        /\ Running => SzVal(program_counter) = nsteps
        /\ (Running /\ WithinModel /\ InTape) => ENABLED Step
        /\ (phase = "interpret" /\ ~Running) => ENABLED Halt
        /\ phase = "halted" => (nsteps = size /\ program_counter = SzOf(size))

\* "+>,." read a byte and halted after four steps with the counter at 4
C20_Witness ==
    /\ m_code = <<"+", ">", ",", ".">>
    /\ phase = "halted"
    /\ ~ub
    /\ nread = 1
    /\ nsteps = 4
    /\ program_counter = SzOf(4)
    /\ Len(output) = 1

====
